---- MODULE Spec2Model ----
(***************************************************************************)
(* A model of ergo.py: the scanner, the shunting-yard parser (parse_rpn),  *)
(* the postfix compiler (compile_to_python), valuate, implied_atomics and  *)
(* the main loop that compiles every premise and then prints the summary.  *)
(*                                                                         *)
(* A formula is a sequence of one-character strings; positions are the     *)
(* zero-based offsets the code reports (expression[i] is e[i + 1] here).   *)
(* A compiled premise is the Python expression compile_to_python builds,   *)
(* kept as the sequence of its Python tokens: "(", ")", "not", "and",      *)
(* "or" and the atomics.                                                   *)
(***************************************************************************)
EXTENDS Integers, Sequences, FiniteSets, TLC

VARIABLES
    args,         \* args.premise: the formulas given on the command line
    arg,          \* the main loop's index into args (zero-based)
    premises,     \* the compiled premises so far
    expression,   \* parse_rpn's lower-cased expression, read by scanner
    start,        \* scanner's cursor
    pattern,      \* whether scanner.pattern has been cached
    stack,        \* parse_rpn's stack of <<pos, token>>
    last_pos,     \* parse_rpn's last_pos
    last_tok,     \* parse_rpn's last_tok
    out,          \* every <<pos, token>> parse_rpn has yielded for this premise
    result,       \* compile_to_python's result stack
    atomic_vals,  \* implied_atomics' loop variable
    examined,     \* the assignments implied_atomics has examined so far
    implied,      \* implied_atomics' dictionary of flags
    err,          \* how the run ended, when it ended in exit() or an exception
    pc            \* where the program is

vars == <<args, arg, premises, expression, start, pattern, stack, last_pos,
          last_tok, out, result, atomic_vals, examined, implied, err, pc>>

-----------------------------------------------------------------------------
(* Bounds of the model. *)

\* the longest formula of Spec, in lexemes (a token or one blank)
MaxToks == 5

\* the longest formula of SpecChars, in characters
MaxChars == 4

\* the most premises on the command line of SpecMain
MaxArgs == 3

\* the most lexemes in all the premises handed to implied_atomics in SpecEntail
MaxEntailToks == 5

-----------------------------------------------------------------------------
(* Module-level constants of ergo.py. *)

\* ops = ['=>', 'v', '^', '~'], in order of increasing precedence
ops == <<"=>", "v", "^", "~">>

\* atomics = 'abcd'
atomics == <<"a", "b", "c", "d">>

Range(s) == {s[i] : i \in DOMAIN s}

OpSet == Range(ops)

AtomicSet == Range(atomics)

\* the characters \s matches among those the model feeds in
Whitespace == {" "}

\* Implied(Flag): the two bits and their combinations
VACUOUS == 0

PROVEN == 1

DISPROVEN == 2

UNPROVEN == PROVEN + DISPROVEN

\* FlagOr with '=' written for '|=': the last model's flag replaces the others
FlagOr_Assign(x, y) == y

\* FlagOr keeping the flag of the first model only
FlagOr_First(x, y) == IF x = VACUOUS THEN y ELSE x

\* a | b on Implied values (two-bit sets)
FlagOr(x, y) ==
    (IF x % 2 = 1 \/ y % 2 = 1 THEN 1 ELSE 0)
  + (IF x \div 2 = 1 \/ y \div 2 = 1 THEN 2 ELSE 0)

-----------------------------------------------------------------------------
(* Errors.  error() exits the interpreter with a message naming arg + 1    *)
(* and pos; kind is the message's fixed text, tok, last and text are the   *)
(* tokens and the input text the message quotes, and by is the function    *)
(* whose line raised it.                                                   *)

NoErr ==
    [kind |-> "None", by |-> "", arg |-> 0, pos |-> -1, tok |-> "", last |-> "",
     text |-> <<>>]

\* error(pos, message): arg is the main loop's global
error(by, a, pos, kind, tok, last, text) ==
    [kind |-> kind, by |-> by, arg |-> a + 1, pos |-> pos, tok |-> tok, last |-> last,
     text |-> text]

\* missing_operand(pos, token)
missing_operand(by, a, pos, token) == error(by, a, pos, "MissingOperand", token, "", <<>>)

\* the uncaught IndexError of result.pop() on an empty list
IndexError ==
    [kind |-> "IndexError", by |-> "compile_to_python", arg |-> 0, pos |-> -1, tok |-> "",
     last |-> "", text |-> <<>>]

\* precedence(op_token), for an operator token
precedence(op_token) == CHOOSE i \in 0..(Len(ops) - 1) : ops[i + 1] = op_token

-----------------------------------------------------------------------------
(* scanner *)

\* str.lower() on one character
LowerChar(c) ==
    CASE c = "A" -> "a"
      [] c = "B" -> "b"
      [] c = "C" -> "c"
      [] c = "D" -> "d"
      [] c = "V" -> "v"
      [] OTHER -> c

\* Lower leaving every character as it is
Lower_AsIs(e) == e

\* expression.lower()
Lower(e) == [i \in 1..Len(e) |-> LowerChar(e[i])]

\* scanner.pattern.match(expression, s).group(0), "" when there is no match:
\* the alternatives =>, v, ^, ~, [abcd], (, ) and \s, tried in this order
MatchAt(e, s) ==
    LET c == e[s + 1] IN
    IF c = "=" /\ s + 2 <= Len(e) /\ e[s + 2] = ">" THEN "=>"
    ELSE IF c \in (OpSet \ {"=>"}) THEN c
    ELSE IF c \in AtomicSet THEN c
    ELSE IF c \in {"(", ")"} THEN c
    ELSE IF c \in Whitespace THEN c
    ELSE ""

\* TokLen taking every token for one character
TokLen_One(token) == 1

\* match.end(0) - match.start(0)
TokLen(token) == IF token = "=>" THEN 2 ELSE 1

\* scanner.pattern.search(expression, s).start(0), Len(e) when nothing matches
SearchFrom(e, s) ==
    LET hits == {n \in s..(Len(e) - 1) : MatchAt(e, n) # ""} IN
    IF hits = {} THEN Len(e)
    ELSE CHOOSE n \in hits : \A m \in hits : n <= m

\* expression[s:n]
Slice(e, s, n) == SubSeq(e, s + 1, n)

-----------------------------------------------------------------------------
(* compile_to_python: what it does with one <<pos, token>> it receives.    *)
(* c is [result, out, err]; nothing is consumed once an error has exited.  *)

\* f'(not {right})'
FmtNot(right) == <<"(", "not">> \o right \o <<")">>

\* FmtBinary without the 'not ' prefix of '=>'
FmtBinary_NoPrefix(token, left, right) ==
    <<"(">> \o left \o <<(IF token = "^" THEN "and" ELSE "or")>> \o right \o <<")">>

\* f'({prefix}{left} {infix} {right})'
FmtBinary(token, left, right) ==
    LET prefix == IF token = "=>" THEN <<"not">> ELSE <<>>
        infix  == IF token = "^" THEN "and" ELSE "or"
    IN <<"(">> \o prefix \o left \o <<infix>> \o right \o <<")">>

Pop(s) == SubSeq(s, 1, Len(s) - 1)

Top(s) == s[Len(s)]

\* one pass of the loop body, lines 121-130
CompileToken(a, res, pt) ==
    LET pos == pt[1]
        token == pt[2]
    IN
    IF token \notin OpSet THEN [result |-> Append(res, <<token>>), err |-> NoErr]
    ELSE IF res = <<>>
    THEN [result |-> res, err |-> missing_operand("compile_to_python", a, pos, token)]
    ELSE LET right == Top(res)
             rest == Pop(res)
         IN
         IF token = "~" THEN [result |-> Append(rest, FmtNot(right)), err |-> NoErr]
         ELSE IF rest = <<>>
         THEN [result |-> rest, err |-> missing_operand("compile_to_python", a, pos, token)]
         ELSE [result |-> Append(Pop(rest), FmtBinary(token, Top(rest), right)),
               err |-> NoErr]

\* a yield of parse_rpn: the token is recorded, and compile_to_python runs on it
\* when it is the consumer of the generator (a consumer that only collects the
\* tokens, as list() does, leaves result and err alone)
Yield(a, g, pt) ==
    IF g.consumer = "list" THEN [g EXCEPT !.out = Append(g.out, pt)]
    ELSE LET c == CompileToken(a, g.result, pt) IN
         [g EXCEPT !.out = Append(g.out, pt), !.result = c.result, !.err = c.err]

\* compiled[1:-1] if compiled[0] == '(' else compiled
StripParens(compiled) ==
    IF compiled[1] = "(" THEN SubSeq(compiled, 2, Len(compiled) - 1) ELSE compiled

-----------------------------------------------------------------------------
(* parse_rpn.  g is [stack, out, result, err, consumer]: the parser's stack, *)
(* what it has yielded, the consumer of its yields, and the consumer's       *)
(* result stack and error.                                                   *)

\* AfterExp forgetting the closing parenthesis
AfterExp_AtomicOnly(last_token) == last_token \in AtomicSet

\* not_after_exp: last_token in atomics + ')'
AfterExp(last_token) == last_token \in AtomicSet \cup {")"}

\* not_after_op: last_token in ops
AfterOp(last_token) == last_token \in OpSet

\* PopToOpen yielding the '(' it stops at
RECURSIVE PopToOpen_YieldOpen(_, _, _)
PopToOpen_YieldOpen(a, g, pos) ==
    IF g.err.kind # "None" THEN g
    ELSE IF g.stack = <<>>
    THEN [g EXCEPT !.err = error("parse_rpn", a, pos, "UnmatchedCloseParen", "", "", <<>>)]
    ELSE LET top == Top(g.stack)
             popped == [g EXCEPT !.stack = Pop(g.stack)]
         IN
         IF top[2] = "(" THEN [popped EXCEPT !.out = Append(popped.out, top)]
         ELSE PopToOpen_YieldOpen(a, Yield(a, popped, top), pos)

\* PopToOpen leaving the '(' it stops at on the stack
RECURSIVE PopToOpen_KeepOpen(_, _, _)
PopToOpen_KeepOpen(a, g, pos) ==
    IF g.err.kind # "None" THEN g
    ELSE IF g.stack = <<>>
    THEN [g EXCEPT !.err = error("parse_rpn", a, pos, "UnmatchedCloseParen", "", "", <<>>)]
    ELSE LET top == Top(g.stack) IN
         IF top[2] = "(" THEN g
         ELSE PopToOpen_KeepOpen(a, Yield(a, [g EXCEPT !.stack = Pop(g.stack)], top), pos)

\* lines 91-96: pop and yield down to the nearest '('
RECURSIVE PopToOpen(_, _, _)
PopToOpen(a, g, pos) ==
    IF g.err.kind # "None" THEN g
    ELSE IF g.stack = <<>>
    THEN [g EXCEPT !.err = error("parse_rpn", a, pos, "UnmatchedCloseParen", "", "", <<>>)]
    ELSE LET top == Top(g.stack)
             popped == [g EXCEPT !.stack = Pop(g.stack)]
         IN
         IF top[2] = "(" THEN popped
         ELSE PopToOpen(a, Yield(a, popped, top), pos)

\* PopPrec yielding the operators of strictly higher precedence only
RECURSIVE PopPrec_Higher(_, _, _)
PopPrec_Higher(a, g, tok_prec) ==
    IF g.err.kind # "None" THEN g
    ELSE IF g.stack = <<>> THEN g
    ELSE LET top == Top(g.stack) IN
         IF top[2] \notin OpSet THEN g
         ELSE IF precedence(top[2]) > tok_prec
         THEN PopPrec_Higher(a, Yield(a, [g EXCEPT !.stack = Pop(g.stack)], top), tok_prec)
         ELSE g

\* lines 104-106: yield the operators of equal or higher precedence
RECURSIVE PopPrec(_, _, _)
PopPrec(a, g, tok_prec) ==
    IF g.err.kind # "None" THEN g
    ELSE IF g.stack = <<>> THEN g
    ELSE LET top == Top(g.stack) IN
         IF top[2] \notin OpSet THEN g
         ELSE IF precedence(top[2]) >= tok_prec
         THEN PopPrec(a, Yield(a, [g EXCEPT !.stack = Pop(g.stack)], top), tok_prec)
         ELSE g

\* Drain reporting the '(' that was opened first, the lowest on the stack
RECURSIVE Drain_FirstOpen(_, _)
Drain_FirstOpen(a, g) ==
    IF g.err.kind # "None" THEN g
    ELSE IF g.stack = <<>> THEN g
    ELSE LET top == Top(g.stack)
             first == CHOOSE i \in 1..Len(g.stack) :
                         /\ g.stack[i][2] = "("
                         /\ \A j \in 1..(i - 1) : g.stack[j][2] # "("
         IN
         IF top[2] = "("
         THEN [g EXCEPT !.err = error("parse_rpn", a, g.stack[first][1],
                                      "UnmatchedOpenParen", "", "", <<>>)]
         ELSE Drain_FirstOpen(a, Yield(a, [g EXCEPT !.stack = Pop(g.stack)], top))

\* lines 112-114: empty the stack at the end of the input
RECURSIVE Drain(_, _)
Drain(a, g) ==
    IF g.err.kind # "None" THEN g
    ELSE IF g.stack = <<>> THEN g
    ELSE LET top == Top(g.stack) IN
         IF top[2] = "("
         THEN [g EXCEPT !.err =
                     error("parse_rpn", a, top[1], "UnmatchedOpenParen", "", "", <<>>)]
         ELSE Drain(a, Yield(a, [g EXCEPT !.stack = Pop(g.stack)], top))

\* lines 81-83
OnAtomic(a, g, pos, token, lpos, ltok) ==
    IF AfterExp(ltok)
    THEN [g EXCEPT !.err = error("parse_rpn", a, pos, "MissingOperator", token, ltok, <<>>)]
    ELSE Yield(a, g, <<pos, token>>)

\* lines 84-86
OnOpenParen(a, g, pos, token, lpos, ltok) ==
    IF AfterExp(ltok)
    THEN [g EXCEPT !.err = error("parse_rpn", a, pos, "MissingOperator", token, ltok, <<>>)]
    ELSE [g EXCEPT !.stack = Append(g.stack, <<pos, token>>)]

\* OnCloseParen reporting empty parentheses at the opening parenthesis
OnCloseParen_AtOpen(a, g, pos, token, lpos, ltok) ==
    IF ltok = "("
    THEN [g EXCEPT !.err = error("parse_rpn", a, lpos, "EmptyParentheses", "", "", <<>>)]
    ELSE IF AfterOp(ltok)
    THEN [g EXCEPT !.err = missing_operand("parse_rpn", a, lpos, ltok)]
    ELSE PopToOpen(a, g, pos)

\* OnCloseParen popping the stack before it looks at the token before the ')'
OnCloseParen_PopFirst(a, g, pos, token, lpos, ltok) ==
    IF ltok = "("
    THEN [g EXCEPT !.err = error("parse_rpn", a, pos, "EmptyParentheses", "", "", <<>>)]
    ELSE LET p == PopToOpen(a, g, pos) IN
         IF p.err.kind # "None" THEN p
         ELSE IF AfterOp(ltok)
         THEN [p EXCEPT !.err = missing_operand("parse_rpn", a, lpos, ltok)]
         ELSE p

\* lines 87-96
OnCloseParen(a, g, pos, token, lpos, ltok) ==
    IF ltok = "("
    THEN [g EXCEPT !.err = error("parse_rpn", a, pos, "EmptyParentheses", "", "", <<>>)]
    ELSE IF AfterOp(ltok)
    THEN [g EXCEPT !.err = missing_operand("parse_rpn", a, lpos, ltok)]
    ELSE PopToOpen(a, g, pos)

\* OperatorCheck naming the later of two adjacent operators
OperatorCheck_Later(a, pos, token, lpos, ltok) ==
    IF token = "~"
    THEN IF AfterExp(ltok)
         THEN error("parse_rpn", a, pos, "MissingOperator", token, ltok, <<>>)
         ELSE NoErr
    ELSE IF ltok = "(" \/ AfterOp(ltok) THEN missing_operand("parse_rpn", a, pos, token)
    ELSE NoErr

\* OperatorCheck letting '~' follow an atomic or ')'
OperatorCheck_AnyNot(a, pos, token, lpos, ltok) ==
    IF token = "~" THEN NoErr
    ELSE IF ltok = "(" THEN missing_operand("parse_rpn", a, pos, token)
    ELSE IF AfterOp(ltok) THEN missing_operand("parse_rpn", a, lpos, ltok)
    ELSE NoErr

\* lines 98-101: the adjacency check of an operator token
OperatorCheck(a, pos, token, lpos, ltok) ==
    IF token = "~"
    THEN IF AfterExp(ltok)
         THEN error("parse_rpn", a, pos, "MissingOperator", token, ltok, <<>>)
         ELSE NoErr
    ELSE IF ltok = "(" THEN missing_operand("parse_rpn", a, pos, token)
    ELSE IF AfterOp(ltok) THEN missing_operand("parse_rpn", a, lpos, ltok)
    ELSE NoErr

\* lines 97-107
OnOperator(a, g, pos, token, lpos, ltok) ==
    LET e == OperatorCheck(a, pos, token, lpos, ltok) IN
    IF e.kind # "None" THEN [g EXCEPT !.err = e]
    ELSE LET p == PopPrec(a, g, precedence(token)) IN
         IF p.err.kind # "None" THEN p
         ELSE [p EXCEPT !.stack = Append(p.stack, <<pos, token>>)]

\* OnEnd emptying the stack before it looks at the last token
OnEnd_DrainFirst(a, g, lpos, ltok) ==
    LET d == Drain(a, g) IN
    IF d.err.kind # "None" THEN d
    ELSE IF AfterOp(ltok) THEN [d EXCEPT !.err = missing_operand("parse_rpn", a, lpos, ltok)]
    ELSE d

\* lines 111-114
OnEnd(a, g, lpos, ltok) ==
    IF AfterOp(ltok) THEN [g EXCEPT !.err = missing_operand("parse_rpn", a, lpos, ltok)]
    ELSE Drain(a, g)

\* the dispatch of lines 81-107 on the token
OnToken(a, g, pos, token, lpos, ltok) ==
    IF token \in AtomicSet THEN OnAtomic(a, g, pos, token, lpos, ltok)
    ELSE IF token = "(" THEN OnOpenParen(a, g, pos, token, lpos, ltok)
    ELSE IF token = ")" THEN OnCloseParen(a, g, pos, token, lpos, ltok)
    ELSE OnOperator(a, g, pos, token, lpos, ltok)

\* last_tok before the first token: chr(0)
Chr0 == "chr(0)"

\* InvalidToken reporting the rest of the input, without the cut of line 57
InvalidToken_ToEnd(a, e, s) ==
    error("scanner", a, s, "InvalidToken", "", "", Slice(e, s, Len(e)))

\* lines 55-58: the error for a character no alternative matches
InvalidToken(a, e, s) ==
    error("scanner", a, s, "InvalidToken", "", "", Slice(e, s, SearchFrom(e, s)))

-----------------------------------------------------------------------------
(* valuate and implied_atomics *)

\* BinaryVals with the least significant digit first
BinaryVals_LowFirst(v) == [i \in 1..Len(atomics) |-> (v \div (2 ^ (i - 1))) % 2]

\* f'{atomic_vals:0{len(atomics)}b}': the binary digits, most significant first
BinaryVals(v) == [i \in 1..Len(atomics) |-> (v \div (2 ^ (Len(atomics) - i))) % 2]

\* the number of '(' minus the number of ')' in e[1..i-1]
RECURSIVE Depth(_, _)
Depth(e, i) ==
    IF i <= 1 THEN 0
    ELSE Depth(e, i - 1)
         + (IF e[i - 1] = "(" THEN 1 ELSE IF e[i - 1] = ")" THEN -1 ELSE 0)

\* the places of word w in e outside every parenthesis
TopLevel(e, w) == {i \in 1..Len(e) : e[i] = w /\ Depth(e, i) = 0}

Max(S) == CHOOSE x \in S : \A y \in S : y <= x

\* eval(proposition), after the exec of atomic=bool(val) for every atomic:
\* Python's or_test, and_test, not_test and atom
RECURSIVE PyEval(_, _)
PyEval(e, vals) ==
    LET ors == TopLevel(e, "or")
        ands == TopLevel(e, "and")
    IN
    IF ors # {}
    THEN LET i == Max(ors) IN
         PyEval(SubSeq(e, 1, i - 1), vals) \/ PyEval(SubSeq(e, i + 1, Len(e)), vals)
    ELSE IF ands # {}
    THEN LET i == Max(ands) IN
         PyEval(SubSeq(e, 1, i - 1), vals) /\ PyEval(SubSeq(e, i + 1, Len(e)), vals)
    ELSE IF e[1] = "not" THEN ~PyEval(Tail(e), vals)
    ELSE IF e[1] = "(" THEN PyEval(SubSeq(e, 2, Len(e) - 1), vals)
    ELSE LET i == CHOOSE j \in 1..Len(atomics) : atomics[j] = e[1] IN vals[i] # 0

\* valuate(proposition, atomic_vals): the names exec binds are the ones eval reads
\* (one frame's locals() dictionary, as in the CPython the tool was written for)
valuate(proposition, v) == PyEval(proposition, BinaryVals(v))

\* AllPremises with any() for all(): one true premise makes a model
AllPremises_Any(ps, v) == \E i \in 1..Len(ps) : valuate(ps[i], v)

\* AllPremises finding no model of an empty list of premises
AllPremises_NotEmpty(ps, v) == Len(ps) > 0 /\ \A i \in 1..Len(ps) : valuate(ps[i], v)

\* all(map(lambda p: valuate(p, atomic_vals), premises))
AllPremises(ps, v) == \A i \in 1..Len(ps) : valuate(ps[i], v)

\* ImpliedStep starting over at an assignment that is no model
ImpliedStep_StartOver(ps, imp, v) ==
    IF AllPremises(ps, v)
    THEN [x \in AtomicSet |->
            FlagOr(imp[x], IF valuate(<<x>>, v) THEN PROVEN ELSE DISPROVEN)]
    ELSE [x \in AtomicSet |-> VACUOUS]

\* lines 162-165: one pass of the loop over atomic_vals
ImpliedStep(ps, imp, v) ==
    IF AllPremises(ps, v)
    THEN [x \in AtomicSet |->
            FlagOr(imp[x], IF valuate(<<x>>, v) THEN PROVEN ELSE DISPROVEN)]
    ELSE imp

\* line 160
ImpliedInit == [x \in AtomicSet |-> VACUOUS]

\* range(2**len(atomics))
NumVals == 2 ^ Len(atomics)

\* implied_atomics(premises), from atomic_vals = v on
RECURSIVE ImpliedFrom(_, _, _)
ImpliedFrom(ps, imp, v) ==
    IF v >= NumVals THEN imp ELSE ImpliedFrom(ps, ImpliedStep(ps, imp, v), v + 1)

implied_atomics(ps) == ImpliedFrom(ps, ImpliedInit, 0)

-----------------------------------------------------------------------------
(* compile_to_python as a function of the formula: the scanner, parse_rpn  *)
(* and the compiler run to the end.                                        *)

G0 == [stack |-> <<>>, out |-> <<>>, result |-> <<>>, err |-> NoErr,
       consumer |-> "compile_to_python"]

RECURSIVE RunScan(_, _, _, _, _, _)
RunScan(a, e, s, g, lpos, ltok) ==
    IF g.err.kind # "None" THEN g
    ELSE IF s >= Len(e) THEN OnEnd(a, g, lpos, ltok)
    ELSE LET token == MatchAt(e, s) IN
         IF token = "" THEN [g EXCEPT !.err = InvalidToken(a, e, s)]
         ELSE IF token \in Whitespace THEN RunScan(a, e, s + TokLen(token), g, lpos, ltok)
         ELSE RunScan(a, e, s + TokLen(token), OnToken(a, g, s, token, lpos, ltok), s, token)

\* [err, compiled, out]: the error compile_to_python ends with, or its return value
compile_to_python(a, formula) ==
    LET e == Lower(formula)
        g == IF Len(e) = 0
             THEN [G0 EXCEPT !.err = error("scanner", a, 0, "EmptyExpression", "", "", <<>>)]
             ELSE RunScan(a, e, 0, G0, -1, Chr0)
    IN
    IF g.err.kind # "None" THEN [err |-> g.err, compiled |-> <<>>, out |-> g.out]
    ELSE IF g.result = <<>> THEN [err |-> IndexError, compiled |-> <<>>, out |-> g.out]
    ELSE [err |-> NoErr, compiled |-> StripParens(Top(g.result)), out |-> g.out]

-----------------------------------------------------------------------------
(* The inputs. *)

\* every concatenation of at most n pieces of L
RECURSIVE Concats(_, _)
Concats(L, n) ==
    IF n = 0 THEN {<<>>}
    ELSE LET S == Concats(L, n - 1) IN S \cup {s \o l : s \in S, l \in L}

\* every sequence of lo to hi members of S
SeqsOf(S, lo, hi) == UNION {[1..n -> S] : n \in lo..hi}

\* the tokens of a formula, the blank and one foreign character, as character
\* sequences
Lexemes ==
    {<<"a">>, <<"b">>, <<"~">>, <<"^">>, <<"v">>, <<"=", ">">>, <<"(">>, <<")">>, <<" ">>,
     <<"$">>}

\* single characters: both cases, the two halves of =>, and one foreign character
Chars ==
    {<<"a">>, <<"b">>, <<"A">>, <<"v">>, <<"V">>, <<"^">>, <<"~">>, <<"=">>, <<">">>,
     <<"(">>, <<")">>, <<" ">>, <<"$">>}

\* the concatenation of a sequence of character sequences
RECURSIVE Flatten(_)
Flatten(ls) == IF ls = <<>> THEN <<>> ELSE Head(ls) \o Flatten(Tail(ls))

\* S as a sequence of character sequences: "a => b" is Str(<<"a", " ", "=>", " ", "b">>)
RECURSIVE Str(_)
Str(ws) ==
    IF ws = <<>> THEN <<>>
    ELSE (IF Head(ws) = "=>" THEN <<"=", ">">> ELSE <<Head(ws)>>) \o Str(Tail(ws))

\* the command lines of SpecMain are drawn from these formulas
MainPool ==
    {Str(<<"a">>), Str(<<"a", " ", "=>", " ", "b">>), Str(<<"~", "a">>),
     Str(<<"b", "v", "c">>), Str(<<"(", ")">>), Str(<<"a", " ", "b">>),
     Str(<<"a", " ", "^">>), Str(<<" ">>), Str(<<"~", "~", "a">>), Str(<<>>),
     Str(<<"(", "a">>), Str(<<"d", "$">>)}

\* the formulas whose compiled premises SpecEntail hands to implied_atomics
EntailLexemes ==
    {<<"a">>, <<"b">>, <<"c">>, <<"d">>, <<"~">>, <<"^">>, <<"v">>, <<"=", ">">>}

\* every concatenation of exactly n pieces of L
RECURSIVE ConcatsOf(_, _)
ConcatsOf(L, n) ==
    IF n = 0 THEN {<<>>}
    ELSE {s \o l : s \in ConcatsOf(L, n - 1), l \in L}

\* the formulas of exactly n lexemes that compile
EntailPool(n) ==
    {f \in ConcatsOf(EntailLexemes, n) : compile_to_python(0, f).err.kind = "None"}

\* the lists of formulas that compile, of at most n lexemes in all
RECURSIVE PremiseLists(_)
PremiseLists(n) ==
    {<<>>} \cup UNION {{<<f>> \o l : f \in EntailPool(k), l \in PremiseLists(n - k)} :
                         k \in 1..n}

-----------------------------------------------------------------------------
(* The program. *)

InitLocals ==
    /\ arg = 0
    /\ premises = <<>>
    /\ expression = <<>>
    /\ start = 0
    /\ pattern = FALSE
    /\ stack = <<>>
    /\ last_pos = -1
    /\ last_tok = Chr0
    /\ out = <<>>
    /\ result = <<>>
    /\ atomic_vals = 0
    /\ examined = {}
    /\ implied = ImpliedInit
    /\ err = NoErr
    /\ pc = "main"

\* one premise of at most MaxToks lexemes
Init ==
    /\ \E n \in 0..MaxToks : \E ls \in [1..n -> Lexemes] : args = <<Flatten(ls)>>
    /\ InitLocals

\* one premise of at most MaxChars characters
InitChars ==
    /\ \E n \in 0..MaxChars : \E ls \in [1..n -> Chars] : args = <<Flatten(ls)>>
    /\ InitLocals

\* one to MaxArgs premises of MainPool
InitMain ==
    /\ args \in SeqsOf(MainPool, 1, MaxArgs)
    /\ InitLocals

\* implied_atomics is entered with the compiled premises of a list of formulas of
\* at most MaxEntailToks lexemes in all
InitEntail ==
    /\ args \in PremiseLists(MaxEntailToks)
    /\ arg = Len(args)
    /\ premises = [i \in 1..Len(args) |-> compile_to_python(i - 1, args[i]).compiled]
    /\ expression = <<>>
    /\ start = 0
    /\ pattern = (Len(args) > 0)
    /\ stack = <<>>
    /\ last_pos = -1
    /\ last_tok = Chr0
    /\ out = <<>>
    /\ result = <<>>
    /\ atomic_vals = 0
    /\ examined = {}
    /\ implied = ImpliedInit
    /\ err = NoErr
    /\ pc = "entail"

G == [stack |-> stack, out |-> out, result |-> result, err |-> NoErr,
      consumer |-> "compile_to_python"]

\* Handled going on to the next token after an error, as a recovering parser would
Handled_Recover(g, token) ==
    /\ stack' = g.stack
    /\ out' = g.out
    /\ result' = g.result
    /\ err' = g.err
    /\ pc' = "scan"
    /\ last_pos' = start
    /\ last_tok' = token
    /\ start' = start + TokLen(token)
    /\ UNCHANGED <<args, arg, premises, expression, pattern, atomic_vals, implied, examined>>

\* the parser has handled the token at start: it goes on, or error() has exited
Handled(g, token) ==
    /\ stack' = g.stack
    /\ out' = g.out
    /\ result' = g.result
    /\ err' = g.err
    /\ IF g.err.kind = "None"
       THEN /\ pc' = "scan"
            /\ last_pos' = start
            /\ last_tok' = token
            /\ start' = start + TokLen(token)
       ELSE /\ pc' = "exit"
            /\ UNCHANGED <<last_pos, last_tok, start>>
    /\ UNCHANGED <<args, arg, premises, expression, pattern, atomic_vals, implied, examined>>

\* StartPremise without the length check of lines 51-52
StartPremise_NoLengthCheck ==
    /\ pc = "main"
    /\ arg < Len(args)
    /\ expression' = Lower(args[arg + 1])
    /\ stack' = <<>>
    /\ last_pos' = -1
    /\ last_tok' = Chr0
    /\ out' = <<>>
    /\ result' = <<>>
    /\ start' = 0
    /\ pattern' = TRUE
    /\ err' = NoErr
    /\ pc' = "scan"
    /\ UNCHANGED <<args, arg, premises, atomic_vals, implied, examined>>

\* StartPremise with last_pos and last_tok kept from the call before
StartPremise_KeepLast ==
    /\ pc = "main"
    /\ arg < Len(args)
    /\ expression' = Lower(args[arg + 1])
    /\ stack' = <<>>
    /\ out' = <<>>
    /\ result' = <<>>
    /\ start' = 0
    /\ pattern' = TRUE
    /\ IF Len(args[arg + 1]) = 0
       THEN /\ err' = error("scanner", arg, 0, "EmptyExpression", "", "", <<>>)
            /\ pc' = "exit"
       ELSE /\ err' = NoErr
            /\ pc' = "scan"
    /\ UNCHANGED <<args, arg, premises, last_pos, last_tok, atomic_vals, implied, examined>>

\* lines 202-203, 120, 76-80, 47-52: the main loop calls compile_to_python on the
\* next premise, whose first step starts parse_rpn and scanner
StartPremise ==
    /\ pc = "main"
    /\ arg < Len(args)
    /\ expression' = Lower(args[arg + 1])
    /\ stack' = <<>>
    /\ last_pos' = -1
    /\ last_tok' = Chr0
    /\ out' = <<>>
    /\ result' = <<>>
    /\ start' = 0
    /\ pattern' = TRUE
    /\ IF Len(args[arg + 1]) = 0
       THEN /\ err' = error("scanner", arg, 0, "EmptyExpression", "", "", <<>>)
            /\ pc' = "exit"
       ELSE /\ err' = NoErr
            /\ pc' = "scan"
    /\ UNCHANGED <<args, arg, premises, atomic_vals, implied, examined>>

\* ScanSpace leaving the cursor where it is
ScanSpace_Stay ==
    /\ pc = "scan"
    /\ start < Len(expression)
    /\ MatchAt(expression, start) \in Whitespace
    /\ UNCHANGED vars

\* lines 53-62 on whitespace: no token is yielded
ScanSpace ==
    /\ pc = "scan"
    /\ start < Len(expression)
    /\ MatchAt(expression, start) \in Whitespace
    /\ start' = start + TokLen(MatchAt(expression, start))
    /\ UNCHANGED <<args, arg, premises, expression, pattern, stack, last_pos, last_tok,
                   out, result, atomic_vals, implied, err, pc, examined>>

\* lines 55-58: no alternative matches at start
ScanInvalid ==
    /\ pc = "scan"
    /\ start < Len(expression)
    /\ MatchAt(expression, start) = ""
    /\ err' = InvalidToken(arg, expression, start)
    /\ pc' = "exit"
    /\ UNCHANGED <<args, arg, premises, expression, start, pattern, stack, last_pos,
                   last_tok, out, result, atomic_vals, implied, examined>>

\* scanner yields an atomic: lines 81-83, and the compiler's line 121
ParseAtomic ==
    /\ pc = "scan"
    /\ start < Len(expression)
    /\ LET token == MatchAt(expression, start) IN
       /\ token \in AtomicSet
       /\ Handled(OnAtomic(arg, G, start, token, last_pos, last_tok), token)

\* scanner yields '(': lines 84-86
ParseOpenParen ==
    /\ pc = "scan"
    /\ start < Len(expression)
    /\ LET token == MatchAt(expression, start) IN
       /\ token = "("
       /\ Handled(OnOpenParen(arg, G, start, token, last_pos, last_tok), token)

\* scanner yields ')': lines 87-96, the compiler consuming what is yielded
ParseCloseParen ==
    /\ pc = "scan"
    /\ start < Len(expression)
    /\ LET token == MatchAt(expression, start) IN
       /\ token = ")"
       /\ Handled(OnCloseParen(arg, G, start, token, last_pos, last_tok), token)

\* scanner yields an operator: lines 97-107, the compiler consuming what is yielded
ParseOperator ==
    /\ pc = "scan"
    /\ start < Len(expression)
    /\ LET token == MatchAt(expression, start) IN
       /\ token \in OpSet
       /\ Handled(OnOperator(arg, G, start, token, last_pos, last_tok), token)

\* scanner is exhausted: lines 111-114, the compiler consuming what is yielded
EndOfInput ==
    /\ pc = "scan"
    /\ start >= Len(expression)
    /\ LET g == OnEnd(arg, G, last_pos, last_tok) IN
       /\ stack' = g.stack
       /\ out' = g.out
       /\ result' = g.result
       /\ err' = g.err
       /\ pc' = IF g.err.kind = "None" THEN "compiled" ELSE "exit"
    /\ UNCHANGED <<args, arg, premises, expression, start, pattern, last_pos, last_tok,
                   atomic_vals, implied, examined>>

\* lines 132-133 and 203: the compiled premise is popped, returned and appended
ReturnCompiled ==
    /\ pc = "compiled"
    /\ IF result = <<>>
       THEN /\ err' = IndexError
            /\ pc' = "crash"
            /\ UNCHANGED <<result, premises, arg>>
       ELSE /\ result' = Pop(result)
            /\ premises' = Append(premises, StripParens(Top(result)))
            /\ arg' = arg + 1
            /\ pc' = "main"
            /\ UNCHANGED err
    /\ UNCHANGED <<args, expression, start, pattern, stack, last_pos, last_tok, out,
                   atomic_vals, implied, examined>>

\* lines 204, 170, 160: every premise is compiled; implied_atomics starts
StartEntail ==
    /\ pc = "main"
    /\ arg >= Len(args)
    /\ implied' = ImpliedInit
    /\ atomic_vals' = 0
    /\ examined' = {}
    /\ pc' = "entail"
    /\ UNCHANGED <<args, arg, premises, expression, start, pattern, stack, last_pos,
                   last_tok, out, result, err>>

\* lines 161-165: one assignment is examined
EntailStep ==
    /\ pc = "entail"
    /\ atomic_vals < NumVals
    /\ implied' = ImpliedStep(premises, implied, atomic_vals)
    /\ atomic_vals' = atomic_vals + 1
    /\ examined' = examined \cup {atomic_vals}
    /\ UNCHANGED <<args, arg, premises, expression, start, pattern, stack, last_pos,
                   last_tok, out, result, err, pc>>

\* line 166
EntailReturn ==
    /\ pc = "entail"
    /\ atomic_vals >= NumVals
    /\ pc' = "done"
    /\ UNCHANGED <<args, arg, premises, expression, start, pattern, stack, last_pos,
                   last_tok, out, result, atomic_vals, implied, err, examined>>

NextEntail == EntailStep \/ EntailReturn

Next ==
    \/ StartPremise
    \/ ScanSpace
    \/ ScanInvalid
    \/ ParseAtomic
    \/ ParseOpenParen
    \/ ParseCloseParen
    \/ ParseOperator
    \/ EndOfInput
    \/ ReturnCompiled
    \/ StartEntail
    \/ EntailStep
    \/ EntailReturn

Spec == Init /\ [][Next]_vars

SpecChars == InitChars /\ [][Next]_vars

SpecMain == InitMain /\ [][Next]_vars

SpecEntail == InitEntail /\ [][NextEntail]_vars

-----------------------------------------------------------------------------
(* What the claims are stated with. *)

\* the <<pos, token>> pairs scanner yields for e from offset s on, up to the end
\* of e or the first character no alternative matches
RECURSIVE ScanFrom(_, _)
ScanFrom(e, s) ==
    IF s >= Len(e) THEN <<>>
    ELSE LET token == MatchAt(e, s) IN
         IF token = "" THEN <<>>
         ELSE IF token \in Whitespace THEN ScanFrom(e, s + TokLen(token))
         ELSE <<(<<s, token>>)>> \o ScanFrom(e, s + TokLen(token))

\* the tokens of formula f, without their positions
TokensOf(f) == LET ps == ScanFrom(Lower(f), 0) IN [i \in 1..Len(ps) |-> ps[i][2]]

\* the textbook grammar: '=>' binds loosest, then 'v', then '^', all three
\* left-associative, the prefix '~' binds tightest, parentheses group
RECURSIVE IsFormula(_)
IsFormula(t) ==
    LET imps == TopLevel(t, "=>")
        ors == TopLevel(t, "v")
        ands == TopLevel(t, "^")
        split(i) == IsFormula(SubSeq(t, 1, i - 1)) /\ IsFormula(SubSeq(t, i + 1, Len(t)))
    IN
    IF t = <<>> THEN FALSE
    ELSE IF imps # {} THEN split(Max(imps))
    ELSE IF ors # {} THEN split(Max(ors))
    ELSE IF ands # {} THEN split(Max(ands))
    ELSE IF t[1] = "~" THEN IsFormula(Tail(t))
    ELSE IF t[1] = "("
    THEN /\ t[Len(t)] = ")"
         /\ \A i \in 2..Len(t) : Depth(t, i) >= 1
         /\ IsFormula(SubSeq(t, 2, Len(t) - 1))
    ELSE Len(t) = 1 /\ t[1] \in AtomicSet

\* the truth value of formula t (a token sequence) when atomics[i] is true iff
\* truth[i], by structural evaluation
RECURSIVE TruthValue(_, _)
TruthValue(t, truth) ==
    LET imps == TopLevel(t, "=>")
        ors == TopLevel(t, "v")
        ands == TopLevel(t, "^")
        left(i) == TruthValue(SubSeq(t, 1, i - 1), truth)
        right(i) == TruthValue(SubSeq(t, i + 1, Len(t)), truth)
    IN
    IF imps # {} THEN (left(Max(imps)) => right(Max(imps)))
    ELSE IF ors # {} THEN (left(Max(ors)) \/ right(Max(ors)))
    ELSE IF ands # {} THEN (left(Max(ands)) /\ right(Max(ands)))
    ELSE IF t[1] = "~" THEN ~TruthValue(Tail(t), truth)
    ELSE IF t[1] = "(" THEN TruthValue(SubSeq(t, 2, Len(t) - 1), truth)
    ELSE truth[CHOOSE j \in 1..Len(atomics) : atomics[j] = t[1]]

\* the 16 assignments, as truth values of a, b, c, d
Assignments == [1..Len(atomics) -> BOOLEAN]

\* the integer implied_atomics uses for an assignment: a is the most significant bit
AsInt(truth) ==
    (IF truth[1] THEN 8 ELSE 0) + (IF truth[2] THEN 4 ELSE 0)
  + (IF truth[3] THEN 2 ELSE 0) + (IF truth[4] THEN 1 ELSE 0)

\* the premise the main loop has just compiled, and its formula
JustCompiled == pc = "main" /\ arg >= 1

\* C1: every formula compile_to_python accepts is a formula of the textbook
\* grammar, and its compiled premise has that formula's truth table.
C1_TruthTable ==
    JustCompiled =>
        LET t == TokensOf(args[arg]) IN
        /\ IsFormula(t)
        /\ \A truth \in Assignments :
              valuate(premises[arg], AsInt(truth)) = TruthValue(t, truth)

\* the formula "~~a"
NotNotA == Str(<<"~", "~", "a">>)

\* C2: "~~a" compiles without any error, and its compiled premise evaluates as
\* "a" does on all 16 assignments.
C2_DoubleNegation ==
    (args = <<NotNotA>>) =>
        /\ pc \notin {"exit", "crash"}
        /\ JustCompiled =>
              \A v \in 0..(NumVals - 1) : valuate(premises[1], v) = valuate(<<"a">>, v)

\* the assignments that make every premise of ps true
Models(ps) == {truth \in Assignments : AllPremises(ps, AsInt(truth))}

\* C3: implied_atomics returns VACUOUS iff the premises have no model, PROVEN iff
\* they have one and the atomic is true in all, DISPROVEN iff they have one and
\* the atomic is false in all, UNPROVEN iff it is true in one and false in another.
C3_Verdicts ==
    pc = "done" =>
        LET M == Models(premises) IN
        \A j \in 1..Len(atomics) :
            LET f == implied[atomics[j]] IN
            /\ (f = VACUOUS) <=> (M = {})
            /\ (f = PROVEN) <=> (M # {} /\ \A m \in M : m[j])
            /\ (f = DISPROVEN) <=> (M # {} /\ \A m \in M : ~m[j])
            /\ (f = UNPROVEN) <=> (\E m1, m2 \in M : m1[j] /\ ~m2[j])
            /\ (M = {}) => (\A x \in AtomicSet : implied[x] = VACUOUS)

\* a reachable case: a proven, b disproven, c independent
C3_Witness ==
    /\ pc = "done"
    /\ Len(premises) = 2
    /\ implied["a"] = PROVEN
    /\ implied["b"] = DISPROVEN
    /\ implied["c"] = UNPROVEN

\* the operands on an operand stack after postfix sequence o is processed from n
\* operands on, -1 when an operator finds too few
RECURSIVE Operands(_, _)
Operands(o, n) ==
    IF n < 0 \/ o = <<>> THEN n
    ELSE LET token == Head(o)[2] IN
         IF token \notin OpSet THEN Operands(Tail(o), n + 1)
         ELSE IF token = "~" THEN Operands(Tail(o), IF n >= 1 THEN n ELSE -1)
         ELSE Operands(Tail(o), IF n >= 2 THEN n - 1 ELSE -1)

\* C4: what parse_rpn has yielded is a well-formed postfix sequence, and the
\* compiler's missing-operand check never fires on it.
C4_WellFormedPostfix ==
    /\ pc = "compiled" => Operands(out, 0) >= 0
    /\ ~(err.kind = "MissingOperand" /\ err.by = "compile_to_python")

\* C5: when compile_to_python has consumed the whole postfix sequence without a
\* syntax error, its result stack holds exactly one entry.
C5_OneResult == pc = "compiled" => Len(result) = 1

\* the seven syntax errors
SyntaxErrors ==
    {"EmptyExpression", "InvalidToken", "MissingOperand", "MissingOperator",
     "EmptyParentheses", "UnmatchedOpenParen", "UnmatchedCloseParen"}

\* C6: compile_to_python returns a premise or fails with one of the seven syntax
\* errors at a position of the input, and in no other way.
C6_TypedErrors ==
    /\ pc # "crash"
    /\ pc = "exit" =>
          /\ err.kind \in SyntaxErrors
          /\ err.pos >= 0
          /\ err.pos < Len(args[arg + 1]) \/ err.pos = 0

\* C7: once error() is called for a premise, the program has exited: nothing
\* further is scanned, emitted or compiled, implied_atomics has not run, and
\* the error names the first premise, counted from 1, that does not compile.
C7_ErrorAbsorbing ==
    (err.kind \in SyntaxErrors) =>
        /\ pc = "exit"
        /\ ~ENABLED Next
        /\ err.arg = arg + 1
        /\ arg < Len(args)
        /\ Len(premises) = arg
        /\ \A i \in 1..arg : compile_to_python(i - 1, args[i]).err.kind = "None"
        /\ compile_to_python(arg, args[arg + 1]).err = err
        /\ out = compile_to_python(arg, args[arg + 1]).out
        /\ implied = ImpliedInit
        /\ atomic_vals = 0

\* a reachable case: the second of three premises fails
C7_Witness ==
    /\ pc = "exit"
    /\ Len(args) = 3
    /\ err.arg = 2
    /\ Len(premises) = 1

\* the formulas that are "()" up to blanks
IsEmptyParens(f) == TokensOf(f) = <<"(", ")">>

\* the offset of the n-th token of formula f
TokenPos(f, n) == ScanFrom(Lower(f), 0)[n][1]

\* C8 as stated: "()" fails with EmptyParentheses at the position of '('.
C8_AtOpenParen ==
    (args = <<Str(<<"(", ")">>)>> /\ pc = "exit") =>
        /\ err.kind = "EmptyParentheses"
        /\ err.pos = TokenPos(args[1], 1)

\* C8 as amended: "()" (and "()" with blanks around its parentheses) fails with
\* EmptyParentheses at the position of ')': the run never gets past the ')'
\* and ends only in that error.
C8_AtCloseParen ==
    (Len(args) = 1 /\ IsEmptyParens(args[1])) =>
        /\ pc \in {"main", "scan", "exit"}
        /\ pc = "main" => arg = 0
        /\ pc = "scan" => start <= TokenPos(args[1], 2)
        /\ pc = "exit" =>
              /\ err.kind = "EmptyParentheses"
              /\ err.by = "parse_rpn"
              /\ err.pos = TokenPos(args[1], 2)

C8_Witness ==
    /\ args = <<Str(<<"(", ")">>)>>
    /\ pc = "exit"
    /\ err.kind = "EmptyParentheses"
    /\ err.pos = 1

\* the index in the token sequence of e of the token at offset s, 0 if none
TokenAt(e, s) ==
    LET ps == ScanFrom(e, 0)
        at == {k \in 1..Len(ps) : ps[k][1] = s}
    IN IF at = {} THEN 0 ELSE CHOOSE k \in at : TRUE

\* the scanner is about to yield an atomic or '(' whose predecessor is an atomic
\* or ')'
AdjacentExpressions ==
    /\ pc = "scan"
    /\ start < Len(expression)
    /\ LET ps == ScanFrom(expression, 0)
           k == TokenAt(expression, start)
       IN /\ k >= 2
          /\ ps[k][2] \in AtomicSet \cup {"("}
          /\ ps[k - 1][2] \in AtomicSet \cup {")"}

\* C9: an atomic or '(' that follows an atomic or ')' makes the run fail, in that
\* step, with MissingOperator at the position of the later token.
C9_MissingOperator ==
    [][AdjacentExpressions =>
          /\ pc' = "exit"
          /\ err'.kind = "MissingOperator"
          /\ err'.pos = start
          /\ err'.arg = arg + 1]_vars

\* a reachable case: '(' after ')', a blank between them
C9_Witness ==
    /\ pc = "exit"
    /\ err.kind = "MissingOperator"
    /\ err.last = ")"
    /\ err.tok = "("
    /\ expression[err.pos] = " "

\* the end of the input is reached and the last token is an operator
EndsInOperator ==
    /\ pc = "scan"
    /\ start >= Len(expression)
    /\ LET ps == ScanFrom(expression, 0) IN
       /\ ps # <<>>
       /\ ps[Len(ps)][2] \in OpSet

\* C10: a formula whose last token is an operator fails at the end of the input
\* with MissingOperand for that operator at its position, before anything is
\* taken off the stack.
C10_EndsInOperator ==
    [][EndsInOperator =>
          LET ps == ScanFrom(expression, 0) IN
          /\ pc' = "exit"
          /\ err'.kind = "MissingOperand"
          /\ err'.tok = ps[Len(ps)][2]
          /\ err'.pos = ps[Len(ps)][1]
          /\ stack' = stack
          /\ out' = out]_vars

\* a reachable case: "a ^" inside an open parenthesis, which is left on the stack
C10_Witness ==
    /\ pc = "exit"
    /\ start >= Len(expression)
    /\ err.kind = "MissingOperand"
    /\ err.tok = "^"
    /\ err.pos = last_pos
    /\ \E i \in 1..Len(stack) : stack[i][2] = "("

\* the offsets of e at which the scanner's pattern can neither match nor have
\* matched: a character that is no atomic, operator, parenthesis or blank and
\* is neither the '=' of a "=>" nor the '>' of one
Foreign(e) ==
    {i \in 0..(Len(e) - 1) :
        LET c == e[i + 1] IN
        /\ c \notin AtomicSet \cup {"~", "^", "v", "(", ")"} \cup Whitespace
        /\ ~(c = "=" /\ i + 2 <= Len(e) /\ e[i + 2] = ">")
        /\ ~(c = ">" /\ i >= 1 /\ e[i] = "=")}

\* the run on the one formula of the command line is over
RunOver == pc \in {"exit", "crash", "done"}

\* the formula of the command line is made of tokens and blanks only, and its
\* first token is a binary operator
StartsWithBinary ==
    /\ Len(args) = 1
    /\ Foreign(Lower(args[1])) = {}
    /\ LET ps == ScanFrom(Lower(args[1]), 0) IN
       /\ ps # <<>>
       /\ ps[1][2] \in OpSet \ {"~"}

\* C11: a formula whose first token is '^', 'v' or '=>' is rejected with
\* MissingOperand naming that operator at its position, whatever tokens follow.
C11_LeadingBinary ==
    (StartsWithBinary /\ RunOver) =>
        LET first == ScanFrom(Lower(args[1]), 0)[1] IN
        /\ pc = "exit"
        /\ err.kind = "MissingOperand"
        /\ err.tok = first[2]
        /\ err.pos = first[1]

-----------------------------------------------------------------------------
(* scanner run by itself, as the generator it is: every token it yields is *)
(* collected in out, and nothing consumes it.                              *)

\* lines 76, 80 and 47-52: scanner is started on the lower-cased formula
ScannerStart ==
    /\ pc = "main"
    /\ arg < Len(args)
    /\ expression' = Lower(args[arg + 1])
    /\ start' = 0
    /\ pattern' = TRUE
    /\ out' = <<>>
    /\ IF Len(args[arg + 1]) = 0
       THEN /\ err' = error("scanner", arg, 0, "EmptyExpression", "", "", <<>>)
            /\ pc' = "exit"
       ELSE /\ err' = NoErr
            /\ pc' = "scan"
    /\ UNCHANGED <<args, arg, premises, stack, last_pos, last_tok, result, atomic_vals,
                   implied, examined>>

\* lines 60-62: a token that is not whitespace is yielded with its offset
ScannerYield ==
    /\ pc = "scan"
    /\ start < Len(expression)
    /\ LET token == MatchAt(expression, start) IN
       /\ token # ""
       /\ token \notin Whitespace
       /\ out' = Append(out, <<start, token>>)
       /\ start' = start + TokLen(token)
    /\ UNCHANGED <<args, arg, premises, expression, pattern, stack, last_pos, last_tok,
                   result, atomic_vals, implied, err, pc, examined>>

\* line 53: start has reached the length of the input, the generator is exhausted
ScannerStop ==
    /\ pc = "scan"
    /\ start >= Len(expression)
    /\ pc' = "stopped"
    /\ UNCHANGED <<args, arg, premises, expression, start, pattern, stack, last_pos,
                   last_tok, out, result, atomic_vals, implied, err, examined>>

NextScanner ==
    \/ ScannerStart
    \/ ScanSpace
    \/ ScanInvalid
    \/ ScannerYield
    \/ ScannerStop

SpecScanner == InitChars /\ [][NextScanner]_vars

\* o is exactly the tokens of e that lie before offset n: each is a token that
\* is not whitespace, paired with the offset at which its characters stand in
\* e; the offsets increase strictly; and every character of e before n that
\* is not whitespace belongs to exactly one of them
Yielded(e, o, n) ==
    /\ \A k \in 1..Len(o) :
          /\ o[k][2] \in OpSet \cup AtomicSet \cup {"(", ")"}
          /\ o[k][1] >= 0
          /\ o[k][1] + TokLen(o[k][2]) <= n
          /\ Slice(e, o[k][1], o[k][1] + TokLen(o[k][2])) = Str(<<o[k][2]>>)
    /\ \A k \in 1..(Len(o) - 1) : o[k][1] < o[k + 1][1]
    /\ \A i \in 0..(n - 1) :
          LET at == {k \in 1..Len(o) : o[k][1] <= i /\ i < o[k][1] + TokLen(o[k][2])} IN
          IF e[i + 1] \in Whitespace THEN at = {} ELSE Cardinality(at) = 1

\* the least element of a non-empty set of integers
Min(S) == CHOOSE n \in S : \A m \in S : n <= m

\* the first offset after s at which a token or whitespace begins in e, Len(e)
\* if there is none
NextBegin(e, s) ==
    LET begins == {n \in (s + 1)..(Len(e) - 1) : MatchAt(e, n) # ""} IN
    IF begins = {} THEN Len(e) ELSE Min(begins)

\* C12: when the input has a character at which the pattern cannot match,
\* scanner yields exactly the tokens before the first such character and fails
\* there with InvalidToken; the text reported runs from that offset to the
\* next offset at which a token or whitespace begins, or to the end of input.
C12_InvalidToken ==
    LET e == Lower(args[1])
        bad == Min(Foreign(e))
    IN
    (Foreign(e) # {}) =>
        /\ pc # "stopped"
        /\ pc = "scan" => start <= bad
        /\ pc = "exit" =>
              /\ err.kind = "InvalidToken"
              /\ err.pos = bad
              /\ err.text = Slice(e, bad, NextBegin(e, bad))
              /\ Yielded(e, out, bad)

\* a reachable case: one token is yielded, then two characters are reported
\* and the atomic after them is not
C12_Witness ==
    /\ pc = "exit"
    /\ err.kind = "InvalidToken"
    /\ Len(out) = 1
    /\ Len(err.text) = 2
    /\ err.pos + 2 < Len(expression)

\* C14: on an input of tokens and whitespace only, scanner does not fail and
\* yields exactly the tokens that are not whitespace, left to right, each with
\* its offset in the lower-cased input, whitespace counted in the offsets.
C14_TokensAndOffsets ==
    LET e == Lower(args[1]) IN
    (e # <<>> /\ Foreign(e) = {}) =>
        /\ pc # "exit"
        /\ pc = "scan" => Yielded(e, out, start)
        /\ pc = "stopped" => (start = Len(e) /\ Yielded(e, out, Len(e)))

\* a reachable case: "=> a", whose atomic is at offset 3
C14_Witness ==
    /\ pc = "stopped"
    /\ out = <<(<<0, "=>">>), (<<3, "a">>)>>

\* C13: compiling the empty string fails with EmptyExpression at position 0,
\* raised by scanner before any token is yielded or emitted: the run is at its
\* start or has exited with that error, and nothing else has happened.
C13_EmptyExpression ==
    (args = <<(<<>>)>>) =>
        /\ pc \in {"main", "exit"}
        /\ out = <<>>
        /\ stack = <<>>
        /\ result = <<>>
        /\ premises = <<>>
        /\ start = 0
        /\ pc = "main" => (arg = 0 /\ err = NoErr)
        /\ pc = "exit" =>
              /\ err.kind = "EmptyExpression"
              /\ err.by = "scanner"
              /\ err.pos = 0
              /\ err.arg = 1
              /\ ~ENABLED Next

\* the empty formula has been rejected
C13_Witness ==
    /\ args = <<(<<>>)>>
    /\ pc = "exit"
    /\ err.kind = "EmptyExpression"
    /\ last_tok = Chr0

\* the upper-case form of the letters a formula is written with
UpperCaseOf == [a |-> "A", b |-> "B", c |-> "C", d |-> "D", v |-> "V"]

\* formula f with every upper-case letter replaced by the letter it is the
\* upper-case form of
AllLowerCase(f) ==
    [i \in 1..Len(f) |->
        IF \E x \in DOMAIN UpperCaseOf : UpperCaseOf[x] = f[i]
        THEN CHOOSE x \in DOMAIN UpperCaseOf : UpperCaseOf[x] = f[i]
        ELSE f[i]]

\* C15: a formula with letters in upper case has the outcome of its
\* all-lower-case form: the same compiled premise, or the same error kind at
\* the same position.
C15_CaseInsensitive ==
    LET f == args[1]
        lower == compile_to_python(0, AllLowerCase(f))
    IN
    (f # AllLowerCase(f)) =>
        /\ JustCompiled => (lower.err.kind = "None" /\ premises[1] = lower.compiled)
        /\ pc \in {"exit", "crash"} =>
              /\ err.kind = lower.err.kind
              /\ err.pos = lower.err.pos
              /\ err.text = lower.err.text

\* a reachable case: "AVb" has compiled to what "avb" compiles to
C15_Witness ==
    /\ JustCompiled
    /\ args = <<(<<"A", "V", "b">>)>>
    /\ premises = <<(<<"a", "or", "b">>)>>

\* C16: with an empty list of premises implied_atomics counts every assignment
\* it examines as a model (an atomic has the PROVEN bit iff it is true in an
\* assignment already examined, the DISPROVEN bit iff it is false in one) and
\* returns UNPROVEN for all four atomics.
C16_NoPremises ==
    (premises = <<>> /\ pc \in {"entail", "done"}) =>
        /\ \A j \in 1..Len(atomics) :
              LET f == implied[atomics[j]]
                  seen == {truth \in Assignments : AsInt(truth) < atomic_vals}
              IN /\ (f % 2 = 1) <=> (\E truth \in seen : truth[j])
                 /\ (f \div 2 = 1) <=> (\E truth \in seen : ~truth[j])
        /\ pc = "done" =>
              /\ atomic_vals = NumVals
              /\ \A x \in AtomicSet : implied[x] = UNPROVEN

\* implied_atomics has returned for the empty list
C16_Witness ==
    /\ pc = "done"
    /\ premises = <<>>
    /\ args = <<>>
    /\ implied["d"] = UNPROVEN

\* the command line of the two premises "a" and "a => b"
ModusPonens == <<Str(<<"a">>), Str(<<"a", " ", "=>", " ", "b">>)>>

\* C17: the program run on the premises "a" and "a => b" compiles both without
\* error, and implied_atomics returns a: PROVEN, b: PROVEN, c: UNPROVEN,
\* d: UNPROVEN.
C17_ModusPonens ==
    (args = ModusPonens) =>
        /\ pc \notin {"exit", "crash"}
        /\ pc \in {"entail", "done"} =>
              premises = <<(<<"a">>), (<<"not", "a", "or", "b">>)>>
        /\ pc = "done" =>
              implied = [x \in AtomicSet |-> IF x \in {"a", "b"} THEN PROVEN ELSE UNPROVEN]

\* the run on "a" and "a => b" has returned from implied_atomics
C17_Witness ==
    /\ args = ModusPonens
    /\ pc = "done"
    /\ atomic_vals = NumVals
    /\ implied["b"] = PROVEN

\* the bits set in an Implied value
Bits(f) ==
    (IF f % 2 = 1 THEN {PROVEN} ELSE {}) \cup (IF f \div 2 = 1 THEN {DISPROVEN} ELSE {})

\* C18: in implied_atomics every atomic's flag starts at VACUOUS, each examined
\* assignment leaves it with a superset of the bits it had, and it changes only
\* when the examined assignment satisfies all premises.
C18_Monotonic ==
    /\ [](pc = "entail" /\ atomic_vals = 0 => \A x \in AtomicSet : implied[x] = VACUOUS)
    /\ [][pc = "entail" =>
            \A x \in AtomicSet :
                /\ Bits(implied[x]) \subseteq Bits(implied'[x])
                /\ implied'[x] # implied[x] => AllPremises(premises, atomic_vals)]_vars

\* a reachable case: an assignment that is no model has just been examined, and
\* an atomic keeps the two bits it had
C18_Witness ==
    /\ pc = "entail"
    /\ atomic_vals >= 1
    /\ ~AllPremises(premises, atomic_vals - 1)
    /\ \E x \in AtomicSet : implied[x] = UNPROVEN

-----------------------------------------------------------------------------
(* The loop of implied_atomics with range() replaced by an arbitrary order: *)
(* each step examines any assignment not examined yet.                      *)

\* the lists of premises of SpecAnyOrder: none, one atomic, a negation, modus
\* ponens, a contradiction (no model) and a disjunction
OrderPool ==
    {<<>>,
     <<Str(<<"a">>)>>,
     <<Str(<<"~", "b">>)>>,
     <<Str(<<"a">>), Str(<<"a", " ", "=>", " ", "b">>)>>,
     <<Str(<<"a">>), Str(<<"~", "a">>)>>,
     <<Str(<<"c", "v", "d">>)>>}

\* implied_atomics is entered with the compiled premises of a list of OrderPool
InitAnyOrder ==
    /\ args \in OrderPool
    /\ arg = Len(args)
    /\ premises = [i \in 1..Len(args) |-> compile_to_python(i - 1, args[i]).compiled]
    /\ expression = <<>>
    /\ start = 0
    /\ pattern = (Len(args) > 0)
    /\ stack = <<>>
    /\ last_pos = -1
    /\ last_tok = Chr0
    /\ out = <<>>
    /\ result = <<>>
    /\ atomic_vals = 0
    /\ examined = {}
    /\ implied = ImpliedInit
    /\ err = NoErr
    /\ pc = "entail"

\* lines 162-165 for an assignment v picked in any order; atomic_vals counts
\* the assignments examined
ExamineAny ==
    /\ pc = "entail"
    /\ \E v \in (0..(NumVals - 1)) \ examined :
          /\ implied' = ImpliedStep(premises, implied, v)
          /\ examined' = examined \cup {v}
    /\ atomic_vals' = atomic_vals + 1
    /\ UNCHANGED <<args, arg, premises, expression, start, pattern, stack, last_pos,
                   last_tok, out, result, err, pc>>

\* line 166, once every assignment has been examined
ReturnAny ==
    /\ pc = "entail"
    /\ examined = 0..(NumVals - 1)
    /\ pc' = "done"
    /\ UNCHANGED <<args, arg, premises, expression, start, pattern, stack, last_pos,
                   last_tok, out, result, atomic_vals, examined, implied, err>>

NextAnyOrder == ExamineAny \/ ReturnAny

SpecAnyOrder == InitAnyOrder /\ [][NextAnyOrder]_vars

\* the flags implied_atomics accumulates over the assignments of S alone, taken
\* in ascending order from v on
RECURSIVE AscendingOver(_, _, _, _)
AscendingOver(ps, imp, S, v) ==
    IF v >= NumVals THEN imp
    ELSE AscendingOver(ps, IF v \in S THEN ImpliedStep(ps, imp, v) ELSE imp, S, v + 1)

\* C19: in whatever order the assignments are examined, the flags are those the
\* ascending order gives for the same assignments, and the verdicts returned
\* are those of implied_atomics.
C19_OrderIndependent ==
    /\ pc \in {"entail", "done"} =>
          implied = AscendingOver(premises, ImpliedInit, examined, 0)
    /\ pc = "done" => implied = implied_atomics(premises)

\* a reachable case: the last assignment (all four atomics true) was examined
\* first, a model of the two premises, and no other yet
C19_Witness ==
    /\ pc = "entail"
    /\ examined = {NumVals - 1}
    /\ Len(premises) = 2
    /\ implied["a"] = PROVEN

\* the outcome of a call of compile_to_python that ended in error e: what the
\* message says, but for the index of the premise
Outcome(e) == [kind |-> e.kind, pos |-> e.pos, tok |-> e.tok, last |-> e.last,
               text |-> e.text]

\* C20: every call of compile_to_python in a run, the first (which caches the
\* scanner's pattern) and the later ones (which reuse it), has the outcome of
\* a first call on the same formula; a formula given twice compiles twice to
\* premises that evaluate identically on all 16 assignments.
C20_Repeatable ==
    /\ \A i \in 1..Len(premises) :
          LET first == compile_to_python(0, args[i]) IN
          /\ first.err.kind = "None"
          /\ premises[i] = first.compiled
    /\ \A i, j \in 1..Len(premises) :
          (args[i] = args[j]) =>
              \A v \in 0..(NumVals - 1) : valuate(premises[i], v) = valuate(premises[j], v)
    /\ pc \in {"exit", "crash"} =>
          Outcome(err) = Outcome(compile_to_python(0, args[arg + 1]).err)
    /\ arg >= 1 => pattern

\* a reachable case: "a => b" has been compiled twice, the second time with the
\* cached pattern
C20_Witness ==
    /\ pc = "main"
    /\ pattern
    /\ Len(premises) >= 2
    /\ args[1] = Str(<<"a", " ", "=>", " ", "b">>)
    /\ args[2] = args[1]
    /\ premises[2] = premises[1]

-----------------------------------------------------------------------------
(* parse_rpn run by itself, as the generator it is: its yields are only     *)
(* collected in out, as list(parse_rpn(expression)) does.                   *)

\* the parser's record when its consumer only collects what it yields
GList == [G EXCEPT !.consumer = "list"]

\* lines 76-80 and 47-52: parse_rpn is started on a formula, and with it scanner
ParserStart ==
    /\ pc = "main"
    /\ arg < Len(args)
    /\ expression' = Lower(args[arg + 1])
    /\ stack' = <<>>
    /\ last_pos' = -1
    /\ last_tok' = Chr0
    /\ out' = <<>>
    /\ start' = 0
    /\ pattern' = TRUE
    /\ IF Len(args[arg + 1]) = 0
       THEN /\ err' = error("scanner", arg, 0, "EmptyExpression", "", "", <<>>)
            /\ pc' = "exit"
       ELSE /\ err' = NoErr
            /\ pc' = "scan"
    /\ UNCHANGED <<args, arg, premises, result, atomic_vals, implied, examined>>

\* lines 81-83
ParserAtomic ==
    /\ pc = "scan"
    /\ start < Len(expression)
    /\ LET token == MatchAt(expression, start) IN
       /\ token \in AtomicSet
       /\ Handled(OnAtomic(arg, GList, start, token, last_pos, last_tok), token)

\* lines 84-86
ParserOpenParen ==
    /\ pc = "scan"
    /\ start < Len(expression)
    /\ LET token == MatchAt(expression, start) IN
       /\ token = "("
       /\ Handled(OnOpenParen(arg, GList, start, token, last_pos, last_tok), token)

\* lines 87-96
ParserCloseParen ==
    /\ pc = "scan"
    /\ start < Len(expression)
    /\ LET token == MatchAt(expression, start) IN
       /\ token = ")"
       /\ Handled(OnCloseParen(arg, GList, start, token, last_pos, last_tok), token)

\* lines 97-107
ParserOperator ==
    /\ pc = "scan"
    /\ start < Len(expression)
    /\ LET token == MatchAt(expression, start) IN
       /\ token \in OpSet
       /\ Handled(OnOperator(arg, GList, start, token, last_pos, last_tok), token)

\* lines 111-114: scanner is exhausted; the generator ends or error() exits
ParserEnd ==
    /\ pc = "scan"
    /\ start >= Len(expression)
    /\ LET g == OnEnd(arg, GList, last_pos, last_tok) IN
       /\ stack' = g.stack
       /\ out' = g.out
       /\ err' = g.err
       /\ pc' = IF g.err.kind = "None" THEN "stopped" ELSE "exit"
    /\ UNCHANGED <<args, arg, premises, expression, start, pattern, last_pos, last_tok,
                   result, atomic_vals, implied, examined>>

NextParser ==
    \/ ParserStart
    \/ ScanSpace
    \/ ScanInvalid
    \/ ParserAtomic
    \/ ParserOpenParen
    \/ ParserCloseParen
    \/ ParserOperator
    \/ ParserEnd

SpecParser == Init /\ [][NextParser]_vars

\* s from its last element to its first: the order in which a stack is popped
Reverse(s) == [i \in 1..Len(s) |-> s[Len(s) + 1 - i]]

\* the indices of the '(' entries of the parser's stack
Opens == {i \in 1..Len(stack) : stack[i][2] = "("}

\* the token the scanner is about to yield, "" when there is none
AtCursor ==
    IF pc = "scan" /\ start < Len(expression) THEN MatchAt(expression, start) ELSE ""

\* C21: when ')' is processed after a token that is neither '(' nor an operator:
\* with no '(' on the stack the parser yields every operator of the stack in pop
\* order and fails with UnmatchedCloseParen at the position of the ')'; with a
\* '(' on the stack it yields the operators above the nearest '(' in pop order
\* and discards that '(' without yielding it.
C21_CloseParen ==
    [][(AtCursor = ")" /\ last_tok # "(" /\ last_tok \notin OpSet) =>
          IF Opens = {}
          THEN /\ out' = out \o Reverse(stack)
               /\ \A i \in 1..Len(stack) : stack[i][2] \in OpSet
               /\ pc' = "exit"
               /\ err'.kind = "UnmatchedCloseParen"
               /\ err'.pos = start
          ELSE LET k == Max(Opens) IN
               /\ out' = out \o Reverse(SubSeq(stack, k + 1, Len(stack)))
               /\ stack' = SubSeq(stack, 1, k - 1)
               /\ \A i \in 1..Len(out') : out'[i][2] # "("
               /\ err' = NoErr
               /\ pc' = "scan"]_vars

\* a reachable case: an operator was popped and yielded before the ')' was found
\* to be unpaired
C21_Witness ==
    /\ pc = "exit"
    /\ err.kind = "UnmatchedCloseParen"
    /\ out # <<>>
    /\ out[Len(out)][2] \in OpSet
    /\ stack = <<>>

\* C22: when the end of the input is reached with a '(' on the stack and the
\* last token is no operator, the parser yields the operators above the topmost
\* '(' of the stack, and only those, and fails with UnmatchedOpenParen at the
\* position of that '(', the one opened last of those still on the stack.
C22_OpenParenLeft ==
    [][(pc = "scan" /\ start >= Len(expression) /\ Opens # {} /\ last_tok \notin OpSet) =>
          LET k == Max(Opens) IN
          /\ out' = out \o Reverse(SubSeq(stack, k + 1, Len(stack)))
          /\ stack' = SubSeq(stack, 1, k)
          /\ pc' = "exit"
          /\ err'.kind = "UnmatchedOpenParen"
          /\ err'.pos = stack[k][1]
          /\ \A i \in Opens : stack[i][1] <= err'.pos]_vars

\* a reachable case: two '(' are left, and an operator above the second was
\* yielded before the error, which names the second
C22_Witness ==
    /\ pc = "exit"
    /\ err.kind = "UnmatchedOpenParen"
    /\ Cardinality(Opens) = 2
    /\ stack[Len(stack)][1] = err.pos
    /\ stack[1][1] < err.pos
    /\ out # <<>>
    /\ out[Len(out)][2] \in OpSet

-----------------------------------------------------------------------------
(* The program under the scheduling it has: a single thread that takes its *)
(* next step whenever it has one.                                          *)

SpecLive == Init /\ [][Next]_vars /\ WF_vars(Next)

\* the program has ended: implied_atomics has returned, error() has exited, or
\* an exception was not caught
Terminated == pc \in {"done", "exit", "crash"}

\* C23: the program always terminates; every iteration of scanner moves the
\* cursor forward, the parser's stack and its yields together never hold more
\* entries than characters were scanned, and implied_atomics makes exactly 16
\* iterations, one for each v below 16.
C23_Terminates ==
    /\ <>Terminated
    /\ [][(pc = "scan" /\ pc' = "scan") =>
             (start' > start /\ start' <= Len(expression))]_vars
    /\ [](Len(stack) + Len(out) <= start)
    /\ [][(pc = "entail" /\ pc' = "entail") =>
             (atomic_vals < NumVals /\ atomic_vals' = atomic_vals + 1)]_vars
    /\ [](pc = "done" => (atomic_vals = NumVals /\ Cardinality(examined) = NumVals))

\* a reachable case: a formula with a blank in it was compiled and
\* implied_atomics has returned after its 16 iterations
C23_Witness ==
    /\ pc = "done"
    /\ atomic_vals = NumVals
    /\ \E i \in 1..Len(args[1]) : args[1][i] \in Whitespace

\* the token before the one at the cursor, as <<pos, token>>, <<-1, "">> if none
Previous ==
    LET ps == ScanFrom(expression, 0)
        k == TokenAt(expression, start)
    IN IF k >= 2 THEN ps[k - 1] ELSE <<-1, "">>

\* C24: a ')' that directly follows an operator makes the run fail, in that
\* step and before anything is popped or yielded, with MissingOperand naming
\* that operator at that operator's position, whether or not a '(' is on the
\* stack.
C24_CloseAfterOperator ==
    [][(AtCursor = ")" /\ Previous[2] \in OpSet) =>
          /\ pc' = "exit"
          /\ err'.kind = "MissingOperand"
          /\ err'.by = "parse_rpn"
          /\ err'.tok = Previous[2]
          /\ err'.pos = Previous[1]
          /\ stack' = stack
          /\ out' = out]_vars

\* a reachable case: "a ^ )" with no '(' on the stack, the '^' two characters
\* before the ')'
C24_Witness ==
    /\ pc = "exit"
    /\ err.kind = "MissingOperand"
    /\ err.by = "parse_rpn"
    /\ AtCursor = ""
    /\ start < Len(expression)
    /\ expression[start + 1] = ")"
    /\ err.pos = start - 2
    /\ Opens = {}
    /\ stack # <<>>

\* the step has ended in an error raised by parse_rpn's adjacency checks
AdjacencyError(e) == e.by = "parse_rpn" /\ e.kind \in {"MissingOperand", "MissingOperator"}

\* C25: when '^', 'v' or '=>' is processed: after '(' the run fails with
\* MissingOperand for this operator at its position; after any operator, '~'
\* included, with MissingOperand for the previous operator at the previous
\* operator's position; after anything else no adjacency error is raised.
C25_BinaryAdjacency ==
    [][(AtCursor \in OpSet \ {"~"}) =>
          IF Previous[2] = "("
          THEN /\ pc' = "exit"
               /\ AdjacencyError(err')
               /\ err'.kind = "MissingOperand"
               /\ err'.tok = AtCursor
               /\ err'.pos = start
          ELSE IF Previous[2] \in OpSet
          THEN /\ pc' = "exit"
               /\ AdjacencyError(err')
               /\ err'.kind = "MissingOperand"
               /\ err'.tok = Previous[2]
               /\ err'.pos = Previous[1]
          ELSE ~AdjacencyError(err')]_vars

\* a reachable case: a binary operator after '~', a blank between them; the
\* error names the '~'
C25_Witness ==
    /\ pc = "exit"
    /\ err.kind = "MissingOperand"
    /\ err.by = "parse_rpn"
    /\ err.tok = "~"
    /\ start < Len(expression)
    /\ expression[start + 1] \in {"^", "v", "="}
    /\ err.pos = start - 2

\* the formula "a ^ ~b", and its tokens
AAndNotB == Str(<<"a", " ", "^", " ", "~", "b">>)

\* C26: when '~' is processed, the run fails with MissingOperator at the
\* position of the '~' exactly when the previous token is an atomic or ')'; at
\* the start of the formula, after '(' and after any operator no adjacency
\* error is raised.  "a ^ ~b", with or without its blanks, compiles, to a
\* premise that is true exactly when a is true and b is false.
C26_NotAdjacency ==
    /\ [][(AtCursor = "~") =>
             IF Previous[2] \in AtomicSet \cup {")"}
             THEN /\ pc' = "exit"
                  /\ err'.kind = "MissingOperator"
                  /\ err'.by = "parse_rpn"
                  /\ err'.pos = start
                  /\ err'.tok = "~"
                  /\ err'.last = Previous[2]
                  /\ stack' = stack
                  /\ out' = out
             ELSE ~AdjacencyError(err')]_vars
    /\ []((Foreign(Lower(args[1])) = {} /\ TokensOf(args[1]) = TokensOf(AAndNotB)) =>
             /\ pc \notin {"exit", "crash"}
             /\ JustCompiled =>
                   /\ premises[1] = compile_to_python(0, AAndNotB).compiled
                   /\ \A truth \in Assignments :
                         valuate(premises[1], AsInt(truth)) = (truth[1] /\ ~truth[2]))

\* a reachable case: a ^ ~b, written with a blank, has compiled
C26_Witness ==
    /\ JustCompiled
    /\ TokensOf(args[1]) = <<"a", "^", "~", "b">>
    /\ Len(args[1]) = 5
    /\ premises[1] = <<"a", "and", "(", "not", "b", ")">>

\* the rank of an operator in ['=>', 'v', '^', '~']
RankOf == ("=>" :> 0) @@ ("v" :> 1) @@ ("^" :> 2) @@ ("~" :> 3)

\* the operator at the cursor passes its adjacency check
PassesAdjacency ==
    /\ AtCursor \in OpSet
    /\ IF AtCursor = "~" THEN Previous[2] \notin AtomicSet \cup {")"}
       ELSE Previous[2] \notin OpSet \cup {"("}

\* the height up to which the stack is kept when an operator of rank r comes:
\* that of its topmost entry that is a '(' or an operator of lower rank
KeptBelow(r) ==
    Max({0} \cup {i \in 1..Len(stack) : stack[i][2] = "(" \/ RankOf[stack[i][2]] < r})

\* C27: an operator that passes its adjacency check makes the parser pop and
\* yield, in pop order, the operators on top of the stack whose rank is at
\* least its own, down to the first '(' or operator of lower rank or the
\* bottom; no '(' is popped or yielded; the operator is then pushed with its
\* position.
C27_Precedence ==
    [][PassesAdjacency =>
          LET keep == KeptBelow(RankOf[AtCursor])
              popped == Reverse(SubSeq(stack, keep + 1, Len(stack)))
          IN
          /\ \A i \in 1..Len(popped) :
                popped[i][2] \in OpSet /\ RankOf[popped[i][2]] >= RankOf[AtCursor]
          /\ out' = out \o popped
          /\ stack' = Append(SubSeq(stack, 1, keep), <<start, AtCursor>>)
          /\ err' = NoErr
          /\ pc' = "scan"]_vars

\* a reachable case: '=>' has come after "a ^ ~ b": '~' and then '^' were
\* popped and yielded, and '=>' is alone on the stack
C27_Witness ==
    /\ pc = "scan"
    /\ last_tok = "=>"
    /\ stack = <<(<<last_pos, "=>">>)>>
    /\ Len(out) = 4
    /\ out[3][2] = "~"
    /\ out[4][2] = "^"

\* bit k of v, bit 0 the least significant
Bit(v, k) == (v \div (2 ^ k)) % 2

\* the assignment v stands for in valuate: the truth value of each atomic
AssignmentOf(v) == [j \in 1..Len(atomics) |-> valuate(<<atomics[j]>>, v)]

\* C28: implied_atomics examines v = 0, 1, ..., 15 in this order, each once;
\* under v the atomic of alphabet index i (a = 0, ..., d = 3) is true iff bit
\* 3 - i of v is 1; the 16 values of v stand for the 16 assignments, each once.
C28_BitOrder ==
    /\ [](pc \in {"entail", "done"} => examined = 0..(atomic_vals - 1))
    /\ [][(pc = "entail" /\ pc' = "entail") =>
             /\ atomic_vals \notin examined
             /\ examined' = examined \cup {atomic_vals}
             /\ atomic_vals' = atomic_vals + 1]_vars
    /\ [](pc = "entail" /\ atomic_vals < NumVals =>
             \A i \in 0..3 :
                 valuate(<<atomics[i + 1]>>, atomic_vals) = (Bit(atomic_vals, 3 - i) = 1))
    /\ [](pc = "done" =>
             /\ examined = 0..15
             /\ {AssignmentOf(v) : v \in examined} = Assignments
             /\ \A v, w \in examined : AssignmentOf(v) = AssignmentOf(w) => v = w)

\* a reachable case: v = 8 is about to be examined, in which a alone is true,
\* and the premise "a" has had no model so far
C28_Witness ==
    /\ pc = "entail"
    /\ atomic_vals = 8
    /\ premises = <<(<<"a">>)>>
    /\ AssignmentOf(atomic_vals) = <<TRUE, FALSE, FALSE, FALSE>>
    /\ implied["a"] = VACUOUS

\* the tokens of the input that are atomics or operators, as <<pos, token>>
InputOperandsAndOperators ==
    LET ps == ScanFrom(expression, 0) IN
    {ps[k] : k \in {i \in 1..Len(ps) : ps[i][2] \in AtomicSet \cup OpSet}}

\* C29: the parser's stack holds only operators and '('; no parenthesis is ever
\* yielded; and when parse_rpn ends without error, what it has yielded is every
\* atomic and operator of the input exactly once, each with its position in the
\* input, the atomics in the order of the input.
C29_TokenConservation ==
    /\ \A i \in 1..Len(stack) : stack[i][2] \in OpSet \cup {"("}
    /\ \A i \in 1..Len(out) : out[i][2] \notin {"(", ")"}
    /\ pc = "stopped" =>
          /\ stack = <<>>
          /\ {out[i] : i \in 1..Len(out)} = InputOperandsAndOperators
          /\ \A i, j \in 1..Len(out) : out[i] = out[j] => i = j
          /\ \A i, j \in 1..Len(out) :
                (i < j /\ out[i][2] \in AtomicSet /\ out[j][2] \in AtomicSet) =>
                    out[i][1] < out[j][1]

\* a reachable case: "(a^b)" has been parsed to a b ^
C29_Witness ==
    /\ pc = "stopped"
    /\ Len(ScanFrom(expression, 0)) = 5
    /\ Len(out) = 3
    /\ out[3][2] \in OpSet \ {"~"}
    /\ out[3][1] < out[2][1]

\* the list ps without its i-th element
Without(ps, i) == SubSeq(ps, 1, i - 1) \o SubSeq(ps, i + 1, Len(ps))

\* C30: the flags implied_atomics returns for a list of premises are, for every
\* atomic, a subset of the bits it returns for the list without any one of
\* them (so adding a premise only removes bits), and they are the same for
\* every permutation of the list and for the list with any premise repeated.
C30_PremiseMonotone ==
    pc = "done" =>
        /\ \A i \in 1..Len(premises) : \A x \in AtomicSet :
              Bits(implied[x]) \subseteq Bits(implied_atomics(Without(premises, i))[x])
        /\ \A perm \in Permutations(1..Len(premises)) :
              implied_atomics([i \in 1..Len(premises) |-> premises[perm[i]]]) = implied
        /\ \A i \in 1..Len(premises) :
              implied_atomics(Append(premises, premises[i])) = implied

\* a reachable case: the second of two different premises has taken a bit from
\* the flags of a
C30_Witness ==
    /\ pc = "done"
    /\ Len(premises) = 2
    /\ premises[1] # premises[2]
    /\ implied["a"] = PROVEN
    /\ implied_atomics(<<premises[1]>>)["a"] = UNPROVEN

====
